---- MODULE Spec2Model ----
(***************************************************************************)
(* Founder Math Lab: the scoring / simulation engine of src/src/App.jsx    *)
(* (computeScore, checkModuleComplete) and the App state that feeds it.    *)
(*                                                                         *)
(* Numbers.  The engine computes on JavaScript numbers.  The model keeps   *)
(* every quantity exact:                                                   *)
(*   - ratios (sam, som, ltv, payback, ltvCac, ...) are reduced fractions  *)
(*     [n, d] with d > 0;                                                  *)
(*   - cash and revenue of the 24-month simulation are exact decimals      *)
(*     [i, f]: an integer part i (the floor) and a fraction f of           *)
(*     2 * 24 decimal digits held in limbs, so that 24 multiplications by  *)
(*     (1 + g/100) with an integer percentage g lose nothing.              *)
(* IEEE-754 rounding of the last bits is the one thing abstracted.         *)
(*                                                                         *)
(* Units.  market.tam is held in millions of dollars (5e9 is 5000),        *)
(* market.somPct in half percents (8 % is 16) and unit.churnMonthly in     *)
(* tenths of a percent (5 % is 50): these are the grids of the editing     *)
(* cells.  All other fields carry the unit of the source.                  *)
(***************************************************************************)
EXTENDS Integers, Sequences, FiniteSets, TLC

VARIABLES market, unit, runway, result, moduleCompletion, coach, cell

vars == <<market, unit, runway, result, moduleCompletion, coach, cell>>

-----------------------------------------------------------------------------
(* Exact fractions *)

Abs(x) == IF x < 0 THEN -x ELSE x

Min(a, b) == IF a <= b THEN a ELSE b

Max(a, b) == IF a >= b THEN a ELSE b

RECURSIVE Gcd(_, _)
Gcd(a, b) == IF b = 0 THEN a ELSE Gcd(b, a % b)

\* The fraction n/d (d # 0) in lowest terms with a positive denominator.
Q(n, d) ==
    LET g == Gcd(Abs(n), Abs(d))
        s == IF d < 0 THEN -1 ELSE 1
    IN  [n |-> (s * n) \div g, d |-> (s * d) \div g]

QInt(k) == [n |-> k, d |-> 1]

QMul(a, b) ==
    LET x == Q(a.n, b.d)
        y == Q(b.n, a.d)
    IN  [n |-> x.n * y.n, d |-> x.d * y.d]

\* a / b for b # 0
QDiv(a, b) == QMul(a, Q(b.d, b.n))

QLe(a, b) == a.n * b.d <= b.n * a.d

QGe(a, b) == QLe(b, a)

QLt(a, b) == ~QLe(b, a)

QGt(a, b) == ~QLe(a, b)

-----------------------------------------------------------------------------
(* Exact decimals for the cash simulation *)

\* for (let m = 1; m <= 24; m++)
SimMonths == 24

\* A fraction is 48 decimal digits, two for each simulated month, held in
\* eight limbs of six digits; f[1] is the most significant limb.
LimbBase == 10 ^ 6

ZeroFrac == <<0, 0, 0, 0, 0, 0, 0, 0>>

\* The decimal i + f / 10^48 with 0 <= f < 10^48: i is its floor.
Dec(i, f) == [i |-> i, f |-> f]

DecInt(k) == Dec(k, ZeroFrac)

\* f + sign * g limb by limb from the least significant one; carry is the
\* carry (0, 1) or borrow (-1) into the integer part.
CombineLimbs(f, g, sign) ==
    LET t8 == f[8] + sign * g[8]
        t7 == f[7] + sign * g[7] + t8 \div LimbBase
        t6 == f[6] + sign * g[6] + t7 \div LimbBase
        t5 == f[5] + sign * g[5] + t6 \div LimbBase
        t4 == f[4] + sign * g[4] + t5 \div LimbBase
        t3 == f[3] + sign * g[3] + t4 \div LimbBase
        t2 == f[2] + sign * g[2] + t3 \div LimbBase
        t1 == f[1] + sign * g[1] + t2 \div LimbBase
    IN  [carry |-> t1 \div LimbBase,
         f |-> << t1 % LimbBase, t2 % LimbBase, t3 % LimbBase, t4 % LimbBase,
                  t5 % LimbBase, t6 % LimbBase, t7 % LimbBase, t8 % LimbBase >>]

DecAdd(a, b) ==
    IF b.f = ZeroFrac THEN Dec(a.i + b.i, a.f)
    ELSE LET s == CombineLimbs(a.f, b.f, 1)
         IN  Dec(a.i + b.i + s.carry, s.f)

DecSub(a, b) ==
    IF b.f = ZeroFrac THEN Dec(a.i - b.i, a.f)
    ELSE LET s == CombineLimbs(a.f, b.f, -1)
         IN  Dec(a.i - b.i + s.carry, s.f)

DecLeZero(a) == a.i < 0 \/ (a.i = 0 /\ a.f = ZeroFrac)

DecLe(a, b) == DecLeZero(DecSub(a, b))

\* f * k for a small natural k, from the least significant limb
MulLimbs(f, k) ==
    LET t8 == f[8] * k
        t7 == f[7] * k + t8 \div LimbBase
        t6 == f[6] * k + t7 \div LimbBase
        t5 == f[5] * k + t6 \div LimbBase
        t4 == f[4] * k + t5 \div LimbBase
        t3 == f[3] * k + t4 \div LimbBase
        t2 == f[2] * k + t3 \div LimbBase
        t1 == f[1] * k + t2 \div LimbBase
    IN  [carry |-> t1 \div LimbBase,
         f |-> << t1 % LimbBase, t2 % LimbBase, t3 % LimbBase, t4 % LimbBase,
                  t5 % LimbBase, t6 % LimbBase, t7 % LimbBase, t8 % LimbBase >>]

\* (rem + f / 10^48) / 100 for 0 <= rem < 100, by long division from the most
\* significant limb
DivLimbs(f, rem) ==
    LET u1 == rem * LimbBase + f[1]
        u2 == (u1 % 100) * LimbBase + f[2]
        u3 == (u2 % 100) * LimbBase + f[3]
        u4 == (u3 % 100) * LimbBase + f[4]
        u5 == (u4 % 100) * LimbBase + f[5]
        u6 == (u5 % 100) * LimbBase + f[6]
        u7 == (u6 % 100) * LimbBase + f[7]
        u8 == (u7 % 100) * LimbBase + f[8]
    IN  << u1 \div 100, u2 \div 100, u3 \div 100, u4 \div 100,
           u5 \div 100, u6 \div 100, u7 \div 100, u8 \div 100 >>

\* a * (k / 100) for a >= 0 and a natural k.  It is exact while a has at most
\* 46 decimals, which 24 months of growth respect.  The hundreds of a.i are
\* scaled apart so that no intermediate exceeds the integer width of TLC.
DecScale(a, k) ==
    LET hundreds == a.i \div 100
        units == a.i % 100
    IN  IF a.f = ZeroFrac /\ (units * k) % 100 = 0
        THEN Dec(hundreds * k + (units * k) \div 100, ZeroFrac)
        ELSE LET p == MulLimbs(a.f, k)
                 whole == units * k + p.carry
             IN  Dec(hundreds * k + whole \div 100, DivLimbs(p.f, whole % 100))

-----------------------------------------------------------------------------
(* Default State *)

DEFAULTS ==
    [market |-> [tam |-> 5000, samPct |-> 15, somPct |-> 16,
                 horizon |-> 5, targetARR |-> 10000000],
     unit |-> [price |-> 99, billing |-> "monthly", grossMargin |-> 55,
               cac |-> 800, churnMonthly |-> 50],
     runway |-> [startingCash |-> 1500000, totalMonthlyBurn |-> 120000,
                 burnHeadcount |-> 60, burnInfra |-> 20, burnOps |-> 20,
                 monthlyRevenue |-> 15000, revenueGrowthMoM |-> 8,
                 fundraiseMonth |-> 0, fundraiseAmount |-> 0,
                 safeCapPercent |-> 20, optionPool |-> 15]]

-----------------------------------------------------------------------------
(* Scoring Engine: computeScore *)

\* let breakevenMonth = null
null == -1

Flag(id, module, severity) == [id |-> id, module |-> module, severity |-> severity]

\* One check of the engine: the points its branch adds to score and the
\* flags its branch pushes.
Outcome(points, flags) == [points |-> points, flags |-> flags]

\* market.tam, held in millions of dollars, against a dollar literal
TamMillions(m) == QInt(m.tam)

\* market.somPct, held in half percents
SomPct(m) == Q(m.somPct, 2)

\* unit.churnMonthly, held in tenths of a percent
ChurnMonthly(u) == Q(u.churnMonthly, 10)

\* const sam = market.tam * (market.samPct / 100), in millions of dollars
Sam(m) == QMul(TamMillions(m), Q(m.samPct, 100))

\* The share taken of the whole market instead of the reachable one
SomOfTam(m) == QMul(TamMillions(m), QDiv(SomPct(m), QInt(100)))

\* const som = sam * (market.somPct / 100), in millions of dollars
Som(m) == QMul(Sam(m), QDiv(SomPct(m), QInt(100)))

\* TAM size with the points of the two tiers exchanged
TamSizeSwapped(m) ==
    IF QGe(TamMillions(m), QInt(10000)) THEN Outcome(13, <<>>)
    ELSE IF QGe(TamMillions(m), QInt(1000)) THEN Outcome(20, <<>>)
    ELSE Outcome(0, <<Flag("tam_small", 1, "critical")>>)

\* TAM size: 10_000_000_000 and 1_000_000_000 dollars are 10000 and 1000 millions
TamSizeCheck(m) ==
    IF QGe(TamMillions(m), QInt(10000)) THEN Outcome(20, <<>>)
    ELSE IF QGe(TamMillions(m), QInt(1000)) THEN Outcome(13, <<>>)
    ELSE Outcome(0, <<Flag("tam_small", 1, "critical")>>)

\* SOM realism
SomRealismCheck(m) ==
    IF QLe(SomPct(m), QInt(5)) THEN Outcome(15, <<>>)
    ELSE IF QLe(SomPct(m), QInt(10)) THEN Outcome(8, <<>>)
    ELSE Outcome(0, <<Flag("som_high", 1, "warning")>>)

\* SOM absolute with the flag in the middle tier too
SomAbsoluteFlagBelow100(m) ==
    IF QGe(Som(m), QInt(100)) THEN Outcome(10, <<>>)
    ELSE IF QGe(Som(m), QInt(30)) THEN Outcome(5, <<Flag("som_abs", 1, "warning")>>)
    ELSE Outcome(0, <<Flag("som_abs", 1, "warning")>>)

\* SOM measured against the target ARR instead of the fixed amounts
SomAgainstTargetARR(m) ==
    IF QGe(Som(m), Q(m.targetARR, 100000)) THEN Outcome(10, <<>>)
    ELSE IF QGe(Som(m), Q(m.targetARR, 1000000)) THEN Outcome(5, <<>>)
    ELSE Outcome(0, <<Flag("som_abs", 1, "warning")>>)

\* SOM absolute with > where the code has >=
SomAbsoluteStrict(m) ==
    IF QGt(Som(m), QInt(100)) THEN Outcome(10, <<>>)
    ELSE IF QGt(Som(m), QInt(30)) THEN Outcome(5, <<>>)
    ELSE Outcome(0, <<Flag("som_abs", 1, "warning")>>)

\* SOM absolute: 100_000_000 and 30_000_000 dollars are 100 and 30 millions
SomAbsoluteCheck(m) ==
    IF QGe(Som(m), QInt(100)) THEN Outcome(10, <<>>)
    ELSE IF QGe(Som(m), QInt(30)) THEN Outcome(5, <<>>)
    ELSE Outcome(0, <<Flag("som_abs", 1, "warning")>>)

\* The price taken as monthly whatever the billing
PriceAsBilled(u) == QInt(u.price)

MonthlyPrice(u) == IF u.billing = "monthly" THEN QInt(u.price) ELSE Q(u.price, 12)

GrossRevPerMonth(u) == QMul(MonthlyPrice(u), Q(u.grossMargin, 100))

ChurnRate(u) == QDiv(ChurnMonthly(u), QInt(100))

\* The lifetime value of the revenue, margin left out
LtvOnRevenue(u) ==
    IF QGt(ChurnRate(u), QInt(0)) THEN QDiv(MonthlyPrice(u), ChurnRate(u))
    ELSE QInt(999999)

Ltv(u) ==
    IF QGt(ChurnRate(u), QInt(0)) THEN QDiv(GrossRevPerMonth(u), ChurnRate(u))
    ELSE QInt(999999)

Payback(u) ==
    IF QGt(GrossRevPerMonth(u), QInt(0)) THEN QDiv(QInt(u.cac), GrossRevPerMonth(u))
    ELSE QInt(999)

\* LTV/CAC with a free acquisition counted as the best ratio
LtvCacFree(u) == IF u.cac > 0 THEN QDiv(Ltv(u), QInt(u.cac)) ELSE QInt(999999)

LtvCac(u) == IF u.cac > 0 THEN QDiv(Ltv(u), QInt(u.cac)) ELSE QInt(0)

AvgLifespanMonths(u) ==
    IF QGt(ChurnRate(u), QInt(0)) THEN QDiv(QInt(1), ChurnRate(u)) ELSE QInt(999)

\* LTV/CAC
LtvCacCheck(u) ==
    IF QGe(LtvCac(u), QInt(5)) THEN Outcome(20, <<>>)
    ELSE IF QGe(LtvCac(u), QInt(3)) THEN Outcome(12, <<>>)
    ELSE IF QGe(LtvCac(u), QInt(2)) THEN Outcome(5, <<>>)
    ELSE Outcome(0, <<Flag("ltvcac_low", 2, "critical")>>)

\* Payback period
PaybackCheck(u) ==
    IF QLe(Payback(u), QInt(6)) THEN Outcome(15, <<>>)
    ELSE IF QLe(Payback(u), QInt(12)) THEN Outcome(8, <<>>)
    ELSE Outcome(0, <<Flag("payback_long", 2, "warning")>>)

\* Gross margin
GrossMarginCheck(u) ==
    IF u.grossMargin >= 70 THEN Outcome(10, <<>>)
    ELSE IF u.grossMargin >= 60 THEN Outcome(5, <<>>)
    ELSE Outcome(0, <<Flag("margin_low", 2, "warning")>>)

\* Math.pow(1 - unit.churnMonthly / 100, 12), one factor at a time; with
\* churnMonthly in tenths of a percent a factor is (1000 - churnMonthly) / 1000
RECURSIVE Retained(_, _, _)
Retained(kept, u, months) ==
    IF months = 0 THEN kept
    ELSE Retained(DecScale(DecScale(kept, 1000 - u.churnMonthly), 10), u, months - 1)

\* (100 - Math.pow(1 - unit.churnMonthly / 100, 12) * 100).toFixed(0): the
\* nearest integer, as the flag's detail prints it
AnnualChurn(u) ==
    DecAdd(DecSub(DecInt(100), DecScale(DecScale(Retained(DecInt(1), u, 12), 1000), 1000)),
           Dec(0, <<500000, 0, 0, 0, 0, 0, 0, 0>>)).i

\* The churn_high flag with the annual churn of its detail
ChurnFlag(u) ==
    [id |-> "churn_high", module |-> 2, severity |-> "warning",
     annualChurn |-> AnnualChurn(u)]

\* High churn flagged only above 5
ChurnAbove5(u) ==
    IF QGt(ChurnMonthly(u), QInt(5)) THEN Outcome(0, <<ChurnFlag(u)>>)
    ELSE Outcome(0, <<>>)

\* High churn that also took points off the score
ChurnPenalty(u) ==
    IF QGe(ChurnMonthly(u), QInt(5)) THEN Outcome(-5, <<Flag("churn_high", 2, "warning")>>)
    ELSE Outcome(0, <<>>)

\* High churn: a flag and no points
ChurnCheck(u) ==
    IF QGe(ChurnMonthly(u), QInt(5)) THEN Outcome(0, <<ChurnFlag(u)>>)
    ELSE Outcome(0, <<>>)

\* The loop variables before the first month (let m = 1 among them)
SimStart(r) ==
    [m |-> 1,
     cash |-> DecInt(r.startingCash),
     rev |-> DecInt(r.monthlyRevenue),
     runwayMonths |-> 24,
     breakevenMonth |-> null,
     cashData |-> <<DecInt(r.startingCash)>>]

\* if (m === runway.fundraiseMonth && runway.fundraiseAmount > 0)
\*     cash += runway.fundraiseAmount
Raised(s, r, burned) ==
    IF s.m = r.fundraiseMonth /\ r.fundraiseAmount > 0
    THEN DecAdd(burned, DecInt(r.fundraiseAmount))
    ELSE burned

\* The last crossing instead of the first: the test without runwayMonths === 24
RunwayAtLastCrossing(s, cash) ==
    IF DecLeZero(cash) THEN s.m - 1 ELSE s.runwayMonths

\* The month of depletion instead of the last solvent month
RunwayAtDepletionMonth(s, cash) ==
    IF DecLeZero(cash) /\ s.runwayMonths = 24 THEN s.m ELSE s.runwayMonths

\* if (cash <= 0 && runwayMonths === 24) runwayMonths = m - 1
RunwayAfter(s, cash) ==
    IF DecLeZero(cash) /\ s.runwayMonths = 24 THEN s.m - 1 ELSE s.runwayMonths

\* The last month of non-positive net burn: the test without breakevenMonth === null
BreakevenAtLast(s, netBurn) ==
    IF DecLeZero(netBurn) THEN s.m ELSE s.breakevenMonth

\* if (netBurn <= 0 && breakevenMonth === null) breakevenMonth = m
BreakevenAfter(s, netBurn) ==
    IF DecLeZero(netBurn) /\ s.breakevenMonth = null THEN s.m ELSE s.breakevenMonth

\* Growth that does not compound: the same amount added every month
GrownLinearly(rev, r) ==
    DecAdd(rev, DecScale(DecInt(r.monthlyRevenue), r.revenueGrowthMoM))

\* Revenue that shrinks by the growth rate
Shrunk(rev, r) == DecScale(rev, 100 - r.revenueGrowthMoM)

\* rev *= 1 + runway.revenueGrowthMoM / 100
Grown(rev, r) == DecScale(rev, 100 + r.revenueGrowthMoM)

\* One pass of the loop body, for month s.m, and m++.  The locals netBurn
\* and cash are handed on as arguments, each computed once.
SimStep(s, r) ==
    LET Recorded(netBurn, cash) ==
            [m |-> s.m + 1,
             cash |-> cash,
             rev |-> Grown(s.rev, r),
             runwayMonths |-> RunwayAfter(s, cash),
             breakevenMonth |-> BreakevenAfter(s, netBurn),
             cashData |-> Append(s.cashData, cash)]
        Burned(netBurn) == Recorded(netBurn, Raised(s, r, DecSub(s.cash, netBurn)))
    IN  Burned(DecSub(DecInt(r.totalMonthlyBurn), s.rev))

\* A loop that stops once the cash is gone
RECURSIVE SimLoopUntilDepleted(_, _)
SimLoopUntilDepleted(s, r) ==
    IF s.m <= SimMonths /\ ~DecLeZero(s.cash)
    THEN SimLoopUntilDepleted(SimStep(s, r), r) ELSE s

\* for (let m = 1; m <= 24; m++) { ... }
RECURSIVE SimLoop(_, _)
SimLoop(s, r) == IF s.m <= SimMonths THEN SimLoop(SimStep(s, r), r) ELSE s

\* The cash-flow loop of MODULE 3
Simulate(r) == SimLoop(SimStart(r), r)

TotalDilution(r) == r.safeCapPercent + r.optionPool

\* The ownership without Math.max(0, ...)
FounderOwnershipUnbounded(r) == 100 - TotalDilution(r)

FounderOwnership(r) == Max(0, 100 - TotalDilution(r))

\* Runway adequacy
RunwayAdequacyCheck(runwayMonths) ==
    IF runwayMonths >= 18 THEN Outcome(20, <<>>)
    ELSE IF runwayMonths >= 12 THEN Outcome(10, <<>>)
    ELSE IF runwayMonths >= 6 THEN Outcome(3, <<>>)
    ELSE Outcome(0, <<Flag("runway_critical", 3, "critical")>>)

\* runway_short up to and including 18 months
RunwayShortUpTo18(runwayMonths) ==
    IF runwayMonths <= 18 THEN Outcome(0, <<Flag("runway_short", 3, "warning")>>)
    ELSE Outcome(0, <<>>)

\* runway_short filed under the unit economics module
RunwayShortInModule2(runwayMonths) ==
    IF runwayMonths < 18 THEN Outcome(0, <<Flag("runway_short", 2, "warning")>>)
    ELSE Outcome(0, <<>>)

\* if (runwayMonths < 18) flags.push(runway_short)
RunwayShortCheck(runwayMonths) ==
    IF runwayMonths < 18 THEN Outcome(0, <<Flag("runway_short", 3, "warning")>>)
    ELSE Outcome(0, <<>>)

\* Breakeven path
BreakevenCheck(breakevenMonth) ==
    IF breakevenMonth # null /\ breakevenMonth <= 24 THEN Outcome(10, <<>>)
    ELSE Outcome(0, <<Flag("no_breakeven", 3, "warning")>>)

\* Dilution without the neutral tier
DilutionNoNeutral(r) ==
    IF TotalDilution(r) <= 25 THEN Outcome(5, <<>>)
    ELSE Outcome(0, <<Flag("dilution_heavy", 3, "warning")>>)

\* Dilution
DilutionCheck(r) ==
    IF TotalDilution(r) <= 25 THEN Outcome(5, <<>>)
    ELSE IF TotalDilution(r) <= 35 THEN Outcome(0, <<>>)
    ELSE Outcome(0, <<Flag("dilution_heavy", 3, "warning")>>)

\* The checks with the test of runwayMonths < 18 ahead of the tiered test
ChecksShortFirst(m, u, r, sim) ==
    << TamSizeCheck(m), SomRealismCheck(m), SomAbsoluteCheck(m),
       LtvCacCheck(u), PaybackCheck(u), GrossMarginCheck(u), ChurnCheck(u),
       RunwayShortCheck(sim.runwayMonths), RunwayAdequacyCheck(sim.runwayMonths),
       BreakevenCheck(sim.breakevenMonth), DilutionCheck(r) >>

\* The checks in the order computeScore runs them, given the simulation's result
Checks(m, u, r, sim) ==
    << TamSizeCheck(m), SomRealismCheck(m), SomAbsoluteCheck(m),
       LtvCacCheck(u), PaybackCheck(u), GrossMarginCheck(u), ChurnCheck(u),
       RunwayAdequacyCheck(sim.runwayMonths), RunwayShortCheck(sim.runwayMonths),
       BreakevenCheck(sim.breakevenMonth), DilutionCheck(r) >>

RECURSIVE SumPoints(_)
SumPoints(cs) == IF cs = <<>> THEN 0 ELSE Head(cs).points + SumPoints(Tail(cs))

RECURSIVE AllFlags(_)
AllFlags(cs) == IF cs = <<>> THEN <<>> ELSE Head(cs).flags \o AllFlags(Tail(cs))

\* The return value without the clamp
UnclampedScore(score) == score

\* score: Math.min(100, Math.max(0, score))
ClampScore(score) == Min(100, Max(0, score))

computeScore(m, u, r) ==
    LET Returned(sim, cs) ==
            [score |-> ClampScore(SumPoints(cs)),
             flags |-> AllFlags(cs),
             derived |-> [sam |-> Sam(m), som |-> Som(m), ltv |-> Ltv(u),
                          payback |-> Payback(u), ltvCac |-> LtvCac(u),
                          avgLifespanMonths |-> AvgLifespanMonths(u),
                          runwayMonths |-> sim.runwayMonths,
                          breakevenMonth |-> sim.breakevenMonth,
                          cashData |-> sim.cashData,
                          founderOwnership |-> FounderOwnership(r),
                          totalDilution |-> TotalDilution(r)]]
        Scored(sim) == Returned(sim, Checks(m, u, r, sim))
    IN  Scored(Simulate(r))

\* The heuristic without the filter on the module
checkAnyCritical(moduleId, flags, score) ==
    LET hasCritical == \E i \in 1 .. Len(flags) : flags[i].severity = "critical"
    IN  ~hasCritical /\ score >= 65

\* Module completion heuristic
checkModuleComplete(moduleId, flags, score) ==
    LET moduleFlags == SelectSeq(flags, LAMBDA f : f.module = moduleId)
        hasCritical == \E i \in 1 .. Len(moduleFlags) : moduleFlags[i].severity = "critical"
    IN  ~hasCritical /\ score >= 65

-----------------------------------------------------------------------------
(* ROOT APP: the parameter state, the dispatch and the memoized results *)

\* What a variable holds while nothing has been computed for it, or while
\* the component it belongs to is not followed
NoResult == [pending |-> TRUE]

\* moduleCompletion: the three checkModuleComplete calls over the memoized
\* flags and score
Completion(res) == [k \in 1 .. 3 |-> checkModuleComplete(k, res.flags, res.score)]

\* A render that keeps the memoized score one state change behind
RenderBehind ==
    /\ result' = computeScore(market, unit, runway)
    /\ moduleCompletion' = Completion(result')
    /\ UNCHANGED coach

\* The render that follows a state change recomputes both memoized values.
Render ==
    /\ result' = computeScore(market', unit', runway')
    /\ moduleCompletion' = Completion(result')
    /\ UNCHANGED coach

\* Values the editing cells hand to dispatch: each lies on its cell's grid
\* (min, or a multiple of step up to max), in the units of the model.
MarketCells ==
    [tam |-> {5000, 10000}, somPct |-> {10, 16}]

UnitCells ==
    [billing |-> {"monthly", "annual"}, cac |-> {50, 800}, churnMonthly |-> {10, 50}]

RunwayCells ==
    [startingCash |-> {100000, 1500000}, revenueGrowthMoM |-> {0, 8},
     safeCapPercent |-> {10, 20}]

\* const AI_PROVIDER = 'none'; // "anthropic" | "openai" | "none"
AI_PROVIDER == "none"

Providers == {"none", "anthropic", "openai"}

\* useState of the panel: advice = '', loading = false, asked = false; inFlight
\* holds, for every getAdvice call that has not returned, the score and flags
\* of the render whose button was clicked (the closure of that call).
CoachPanel(provider) ==
    [provider |-> provider, advice |-> [kind |-> "empty"], loading |-> FALSE,
     asked |-> FALSE, inFlight |-> <<>>]

\* [...criticals, ...warnings].slice(0, 4)
TopFlags(flags) ==
    LET criticals == SelectSeq(flags, LAMBDA f : f.severity = "critical")
        warnings == SelectSeq(flags, LAMBDA f : f.severity = "warning")
        all == criticals \o warnings
    IN  SubSeq(all, 1, Min(4, Len(all)))

\* The message of the deterministic path: one of three texts, the last two
\* carrying the score and the last one a line for each top flag.
HeuristicAdvice(score, flags) ==
    IF score >= 80 THEN [kind |-> "investor_grade"]
    ELSE IF TopFlags(flags) = <<>> THEN [kind |-> "foundation", score |-> score]
    ELSE [kind |-> "priorities", score |-> score, tips |-> TopFlags(flags)]

\* data.content?.[0]?.text || 'No response received.' (and the same for
\* data.choices?.[0]?.message?.content): the text of the reply, if it has one
ProviderAdvice(text) ==
    IF text = "" THEN [kind |-> "no_response"] ELSE [kind |-> "provider", text |-> text]

\* `Failed to reach AI: ${err.message}. Check your API key and CORS settings.`
FailureAdvice == [kind |-> "failed_to_reach"]

Init ==
    /\ market = DEFAULTS.market
    /\ unit = DEFAULTS.unit
    /\ runway = DEFAULTS.runway
    /\ result = computeScore(DEFAULTS.market, DEFAULTS.unit, DEFAULTS.runway)
    /\ moduleCompletion = Completion(result)
    /\ coach = CoachPanel(AI_PROVIDER)
    /\ cell = NoResult

\* case 'SET_MARKET': setMarket(prev => ({ ...prev, [action.field]: action.value }))
SET_MARKET ==
    \E field \in DOMAIN MarketCells : \E value \in MarketCells[field] :
        /\ market' = [market EXCEPT ![field] = value]
        /\ UNCHANGED <<unit, runway, cell>>
        /\ Render

\* case 'SET_UNIT'
SET_UNIT ==
    \E field \in DOMAIN UnitCells : \E value \in UnitCells[field] :
        /\ unit' = [unit EXCEPT ![field] = value]
        /\ UNCHANGED <<market, runway, cell>>
        /\ Render

\* case 'SET_RUNWAY'
SET_RUNWAY ==
    \E field \in DOMAIN RunwayCells : \E value \in RunwayCells[field] :
        /\ runway' = [runway EXCEPT ![field] = value]
        /\ UNCHANGED <<market, unit, cell>>
        /\ Render

Next == SET_MARKET \/ SET_UNIT \/ SET_RUNWAY

Spec == Init /\ [][Next]_vars

-----------------------------------------------------------------------------
(* CASH FLOW CHART: the month from which the chart shades the cash as gone *)

\* The first index from i on, the first entry apart, whose cash is below zero
RECURSIVE FindBelowZero(_, _)
FindBelowZero(cashData, i) ==
    IF i >= Len(cashData) THEN -1
    ELSE IF i > 0 /\ cashData[i + 1].i < 0 THEN i
    ELSE FindBelowZero(cashData, i + 1)

\* A marker that waits for the cash to go below zero
deathMonthBelowZero(cashData) == FindBelowZero(cashData, 0)

\* findIndex from index i on: the first index that passes the test, or -1
RECURSIVE FindIndex(_, _)
FindIndex(cashData, i) ==
    IF i >= Len(cashData) THEN -1
    ELSE IF i > 0 /\ DecLeZero(cashData[i + 1]) THEN i
    ELSE FindIndex(cashData, i + 1)

\* const deathMonth = cashData.findIndex((c, i) => i > 0 && c <= 0);
deathMonth(cashData) == FindIndex(cashData, 0)

-----------------------------------------------------------------------------
(* COACH PANEL: getAdvice from the click to the settled request *)

\* onClick={getAdvice} disabled={loading}: setLoading(true); setAsked(true);
\* the call then waits for its timer or its fetch with the props of this render.
AskCoach ==
    /\ ~coach.loading
    /\ coach' = [coach EXCEPT !.loading = TRUE, !.asked = TRUE,
                              !.inFlight = Append(@, [score |-> result.score,
                                                      flags |-> result.flags])]
    /\ UNCHANGED <<market, unit, runway, result, moduleCompletion, cell>>

\* A call of the panel that returns with the given advice: setAdvice(...);
\* setLoading(false)
Settle(advice) ==
    /\ coach' = [coach EXCEPT !.advice = advice, !.loading = FALSE,
                              !.inFlight = Tail(@)]
    /\ UNCHANGED <<market, unit, runway, result, moduleCompletion, cell>>

\* A timer whose callback reads the score and flags of the latest render
TimerFiresOnLatest ==
    /\ coach.provider = "none"
    /\ coach.inFlight # <<>>
    /\ Settle(HeuristicAdvice(result.score, result.flags))

\* AI_PROVIDER === 'none': the 600 ms timer fires
TimerFires ==
    /\ coach.provider = "none"
    /\ coach.inFlight # <<>>
    /\ Settle(HeuristicAdvice(Head(coach.inFlight).score, Head(coach.inFlight).flags))

\* fetch and res.json() resolve: a reply with a text, or a body without one
\* (an error body of the provider included)
FetchResolves ==
    /\ coach.provider \in {"anthropic", "openai"}
    /\ coach.inFlight # <<>>
    /\ \E text \in {"", "reply"} : Settle(ProviderAdvice(text))

\* fetch rejects or res.json() throws: the catch block
FetchFails ==
    /\ coach.provider \in {"anthropic", "openai"}
    /\ coach.inFlight # <<>>
    /\ Settle(FailureAdvice)

\* Parameter sets the dispatch reaches: the defaults, and a set without a
\* flag that scores 74
CoachParams ==
    {[market |-> DEFAULTS.market, unit |-> DEFAULTS.unit, runway |-> DEFAULTS.runway],
     [market |-> DEFAULTS.market,
      unit |-> [DEFAULTS.unit EXCEPT !.cac = 700, !.grossMargin = 60,
                                     !.churnMonthly = 30],
      runway |-> [DEFAULTS.runway EXCEPT !.monthlyRevenue = 120000]]}

InitCoach ==
    /\ \E p \in CoachParams :
          /\ market = p.market
          /\ unit = p.unit
          /\ runway = p.runway
    /\ result = computeScore(market, unit, runway)
    /\ moduleCompletion = Completion(result)
    /\ \E provider \in Providers : coach = CoachPanel(provider)
    /\ cell = NoResult

NextCoach == AskCoach \/ TimerFires \/ FetchResolves \/ FetchFails \/ SET_MARKET

SpecCoach == InitCoach /\ [][NextCoach]_vars

\* Every timer fires and every fetch settles.
SpecCoachFair ==
    SpecCoach /\ WF_vars(TimerFires) /\ WF_vars(FetchResolves \/ FetchFails)

-----------------------------------------------------------------------------
(* PARAMETER CELL: drag, arrow keys and typed entries of one cell *)

QAdd(a, b) == Q(a.n * b.d + b.n * a.d, a.d * b.d)

QMin(a, b) == IF QLe(a, b) THEN a ELSE b

QMax(a, b) == IF QGe(a, b) THEN a ELSE b

\* Math.round: the nearest integer, a half going up
MathRound(a) == (2 * a.n + a.d) \div (2 * a.d)

NaN == [nan |-> TRUE]

\* min, max, step and dragSensitivity of the cells followed, in source units,
\* and the number of model units in one source unit of the field
CellProps ==
    [horizon |-> [min |-> QInt(1), max |-> QInt(10), step |-> QInt(1),
                  dragSensitivity |-> 30, scale |-> 1],
     churnMonthly |-> [min |-> Q(1, 10), max |-> QInt(25), step |-> Q(1, 2),
                       dragSensitivity |-> 25, scale |-> 10]]

\* min and max of every cell of the three modules, in model units
CellBounds ==
    [market |-> [tam |-> <<100, 1000000>>, samPct |-> <<1, 80>>,
                 somPct |-> <<1, 60>>, horizon |-> <<1, 10>>,
                 targetARR |-> <<100000, 1000000000>>],
     unit |-> [price |-> <<10, 50000>>, grossMargin |-> <<10, 95>>,
               cac |-> <<10, 100000>>, churnMonthly |-> <<1, 250>>],
     runway |-> [startingCash |-> <<100000, 50000000>>,
                 totalMonthlyBurn |-> <<5000, 5000000>>,
                 monthlyRevenue |-> <<0, 5000000>>,
                 revenueGrowthMoM |-> <<0, 50>>, fundraiseMonth |-> <<0, 24>>,
                 fundraiseAmount |-> <<0, 20000000>>,
                 safeCapPercent |-> <<0, 50>>, optionPool |-> <<0, 30>>]]

\* Snap after the clamp: the bounds first, the grid second
ClampThenSnap(c, v) ==
    QMul(QInt(MathRound(QDiv(QMax(c.min, QMin(c.max, v)), c.step))), c.step)

\* const snapped = Math.round(v / step) * step;
\* return Math.max(min, Math.min(max, snapped));
clamp(c, v) ==
    LET snapped == QMul(QInt(MathRound(QDiv(v, c.step))), c.step)
    IN  QMax(c.min, QMin(c.max, snapped))

DigitChars == <<"0", "1", "2", "3", "4", "5", "6", "7", "8", "9">>

IsDigit(ch) == \E i \in 1 .. 10 : DigitChars[i] = ch

DigitValue(ch) == (CHOOSE i \in 1 .. 10 : DigitChars[i] = ch) - 1

\* The number of digits of s from position i on
RECURSIVE DigitRun(_, _)
DigitRun(s, i) ==
    IF i <= Len(s) /\ IsDigit(s[i]) THEN 1 + DigitRun(s, i + 1) ELSE 0

\* The number written by the k digits of s from position i on
RECURSIVE NumberOf(_, _, _)
NumberOf(s, i, k) ==
    IF k = 0 THEN 0 ELSE NumberOf(s, i, k - 1) * 10 + DigitValue(s[i + k - 1])

RECURSIVE Pow10(_)
Pow10(k) == IF k = 0 THEN 1 ELSE 10 * Pow10(k - 1)

\* parseFloat of a string given as its characters: the longest prefix made of
\* a sign, digits, a point and digits; NaN when that prefix has no digit
parseFloat(s) ==
    LET i == IF s # <<>> /\ s[1] \in {"+", "-"} THEN 2 ELSE 1
        whole == DigitRun(s, i)
        frac == IF i + whole <= Len(s) /\ s[i + whole] = "."
                THEN DigitRun(s, i + whole + 1) ELSE 0
        magnitude == QAdd(QInt(NumberOf(s, i, whole)),
                          Q(NumberOf(s, i + whole + 1, frac), Pow10(frac)))
    IN  IF whole + frac = 0 THEN NaN
        ELSE IF s[1] = "-" THEN QMul(QInt(-1), magnitude)
        ELSE magnitude

\* The typed text of commitEdit as a number: the characters $ , % B M K b m k
\* and white space are dropped, the rest goes to parseFloat, and a B, M or K
\* at the end multiplies; NaN stays NaN
ParseEntry(editStr) ==
    LET cleaned == SelectSeq(editStr, LAMBDA ch :
                       ch \notin {"$", ",", "%", "B", "M", "K", "b", "m", "k", " "})
        parsed == parseFloat(cleaned)
        last == IF editStr = <<>> THEN "" ELSE editStr[Len(editStr)]
    IN  IF parsed = NaN THEN NaN
        ELSE IF last \in {"B", "b"} THEN QMul(parsed, QInt(1000000000))
        ELSE IF last \in {"M", "m"} THEN QMul(parsed, QInt(1000000))
        ELSE IF last \in {"K", "k"} THEN QMul(parsed, QInt(1000))
        ELSE parsed

RECURSIVE DigitsOf(_)
DigitsOf(n) ==
    IF n < 10 THEN <<DigitChars[n + 1]>>
    ELSE DigitsOf(n \div 10) \o <<DigitChars[(n % 10) + 1]>>

\* String(value) for a value of at most one decimal
StringOf(v) ==
    LET tenths == Abs((v.n * 10) \div v.d)
        decimal == IF tenths % 10 = 0 THEN <<>>
                   ELSE <<".", DigitChars[(tenths % 10) + 1]>>
    IN  (IF v.n < 0 THEN <<"-">> ELSE <<>>) \o DigitsOf(tenths \div 10) \o decimal

\* What the user types into the input
TypedEntries ==
    { <<>>, <<"a", "b", "c">>, <<"7">>, <<"2", ".", "3">>, <<"-", "4">>,
      <<"1", "k">>, <<"3", "0", "%">>, <<"1", "2", "x">>,
      <<"$", "0", ".", "0", "4">> }

\* clientY of the mouse down and of the moves that follow it
MouseDownY == 300

MouseMoveYs == {0, 280, 310, 1200}

\* useState and useRef of the cell: editing, editStr, dragging, startY, startVal
ParameterCell(field) ==
    [field |-> field, editing |-> FALSE, editStr |-> <<>>, dragging |-> FALSE,
     startY |-> 0, startVal |-> QInt(0)]

\* The value prop of the cell, in source units
ValueOf(field) ==
    IF field = "horizon" THEN Q(market.horizon, CellProps[field].scale)
    ELSE Q(unit.churnMonthly, CellProps[field].scale)

\* onChange(v): the dispatch of the cell's field, and the render after it
OnChange(field, v) ==
    LET value == (v.n * CellProps[field].scale) \div v.d
    IN  /\ IF field = "horizon"
           THEN /\ market' = [market EXCEPT !.horizon = value]
                /\ UNCHANGED <<unit, runway>>
           ELSE /\ unit' = [unit EXCEPT !.churnMonthly = value]
                /\ UNCHANGED <<market, runway>>
        /\ Render

NoChange == UNCHANGED <<market, unit, runway, result, moduleCompletion, coach>>

\* handleMouseDown: if (editing) return; the drag starts from the value shown
MouseDown ==
    /\ ~cell.editing /\ ~cell.dragging
    /\ cell' = [cell EXCEPT !.dragging = TRUE, !.startY = MouseDownY,
                            !.startVal = ValueOf(cell.field)]
    /\ NoChange

\* onMove: onChange(clamp(startVal + (startY - clientY) / dragSensitivity * step))
MouseMove ==
    /\ cell.dragging
    /\ \E clientY \in MouseMoveYs :
          LET c == CellProps[cell.field]
              valueDelta == QMul(Q(cell.startY - clientY, c.dragSensitivity), c.step)
          IN  OnChange(cell.field, clamp(c, QAdd(cell.startVal, valueDelta)))
    /\ UNCHANGED cell

\* onUp: setDragging(false); the two refs are not read again before the next
\* mouse down writes them
MouseUp ==
    /\ cell.dragging
    /\ cell' = [cell EXCEPT !.dragging = FALSE, !.startY = 0, !.startVal = QInt(0)]
    /\ NoChange

\* handleDoubleClick, which follows the second mouse up
DoubleClick ==
    /\ ~cell.dragging
    /\ cell' = [cell EXCEPT !.editing = TRUE, !.editStr = StringOf(ValueOf(cell.field))]
    /\ NoChange

\* onChange of the input: setEditStr(e.target.value)
Type ==
    /\ cell.editing
    /\ \E editStr \in TypedEntries : cell' = [cell EXCEPT !.editStr = editStr]
    /\ NoChange

\* commitEdit, on Enter and on blur; editStr is not read again before the
\* next double click writes it
commitEdit ==
    /\ cell.editing
    /\ IF ParseEntry(cell.editStr) # NaN
       THEN OnChange(cell.field, clamp(CellProps[cell.field], ParseEntry(cell.editStr)))
       ELSE NoChange
    /\ cell' = [cell EXCEPT !.editing = FALSE, !.editStr = <<>>]

\* Escape while editing
Escape ==
    /\ cell.editing
    /\ cell' = [cell EXCEPT !.editing = FALSE, !.editStr = <<>>]
    /\ NoChange

\* ArrowUp and ArrowDown outside the input; no key is pressed while the mouse
\* button is held
ArrowKey ==
    /\ ~cell.editing /\ ~cell.dragging
    /\ \E sign \in {1, -1} :
          LET c == CellProps[cell.field]
          IN  OnChange(cell.field,
                       clamp(c, QAdd(ValueOf(cell.field), QMul(QInt(sign), c.step))))
    /\ UNCHANGED cell

InitCell ==
    /\ market = DEFAULTS.market
    /\ unit = DEFAULTS.unit
    /\ runway = DEFAULTS.runway
    /\ result = computeScore(market, unit, runway)
    /\ moduleCompletion = Completion(result)
    /\ coach = CoachPanel(AI_PROVIDER)
    /\ \E field \in DOMAIN CellProps : cell = ParameterCell(field)

NextCell ==
    \/ MouseDown \/ MouseMove \/ MouseUp
    \/ DoubleClick \/ Type \/ commitEdit \/ Escape
    \/ ArrowKey

SpecCell == InitCell /\ [][NextCell]_vars

-----------------------------------------------------------------------------
(* The engine as a pure function: callers that hold inputs of the documented *)
(* domains and apply the engine to them once                                 *)

Evaluate ==
    /\ result = NoResult
    /\ result' = computeScore(market, unit, runway)
    /\ moduleCompletion' = Completion(result')
    /\ UNCHANGED <<market, unit, runway, coach, cell>>

\* Nothing is computed and no panel is mounted.
Pending ==
    /\ result = NoResult /\ moduleCompletion = NoResult
    /\ coach = NoResult /\ cell = NoResult

Evaluated == result # NoResult

\* The largest month of a planned raise among the inputs
MaxFundraiseMonth == 3

\* Every tier of every check, all three parameter groups varying together
EngineMarkets ==
    {[DEFAULTS.market EXCEPT !.tam = t, !.samPct = a, !.somPct = o] :
        t \in {500, 5000, 10000}, a \in {15, 80}, o \in {10, 16, 21}}

EngineUnits ==
    {[DEFAULTS.unit EXCEPT !.grossMargin = g, !.cac = c, !.churnMonthly = h] :
        g \in {55, 70}, c \in {0, 50, 800}, h \in {10, 50}}

EngineRunways ==
    {[DEFAULTS.runway EXCEPT !.startingCash = c, !.monthlyRevenue = v,
                             !.revenueGrowthMoM = 0, !.safeCapPercent = s,
                             !.optionPool = o] :
        c \in {100000, 1000000, 1500000}, v \in {15000, 120000},
        s \in {10, 20}, o \in {15, 30}}

InitEngine ==
    /\ market \in EngineMarkets
    /\ unit \in EngineUnits
    /\ runway \in EngineRunways
    /\ Pending

SpecEngine == InitEngine /\ [][Evaluate]_vars

\* The market group alone, on and around every threshold of module 1
MarketInputs ==
    {[DEFAULTS.market EXCEPT !.tam = t, !.samPct = a, !.somPct = o] :
        t \in {0, 100, 500, 999, 1000, 5000, 9999, 10000, 100000},
        a \in {0, 1, 15, 80, 100},
        o \in {0, 1, 10, 11, 16, 20, 21, 60, 200}}

InitMarket ==
    /\ market \in MarketInputs
    /\ unit = DEFAULTS.unit
    /\ runway = DEFAULTS.runway
    /\ Pending

SpecMarket == InitMarket /\ [][Evaluate]_vars

\* The unit group alone, on and around every threshold of module 2
UnitInputs ==
    {[DEFAULTS.unit EXCEPT !.price = p, !.billing = b, !.grossMargin = g,
                           !.cac = c, !.churnMonthly = h] :
        p \in {99, 100}, b \in {"monthly", "annual"},
        g \in {0, 55, 59, 60, 69, 70},
        c \in {0, 360, 600, 720, 721, 1200, 2000, 3000, 3001},
        h \in {0, 10, 49, 50, 100}}

InitUnit ==
    /\ market = DEFAULTS.market
    /\ unit \in UnitInputs
    /\ runway = DEFAULTS.runway
    /\ Pending

SpecUnit == InitUnit /\ [][Evaluate]_vars

\* The cap table and the path to breakeven: SAFE and option pool on and
\* around the dilution thresholds and up to 100% each
DilutionInputs ==
    {[DEFAULTS.runway EXCEPT !.safeCapPercent = c, !.optionPool = o,
                             !.monthlyRevenue = v, !.revenueGrowthMoM = g] :
        c \in {0, 10, 20, 21, 50, 100}, o \in {0, 5, 15, 16, 30, 100},
        v \in {15000, 120000}, g \in {0, 25}}

InitDilution ==
    /\ market = DEFAULTS.market
    /\ unit = DEFAULTS.unit
    /\ runway \in DilutionInputs
    /\ Pending

SpecDilution == InitDilution /\ [][Evaluate]_vars


RunwayInputs ==
    {[DEFAULTS.runway EXCEPT !.startingCash = c, !.totalMonthlyBurn = b,
                             !.monthlyRevenue = v, !.revenueGrowthMoM = g,
                             !.fundraiseMonth = f, !.fundraiseAmount = a] :
        c \in {100000, 500000, 1000000, 1500000, 2000000}, b \in {5000, 120000},
        v \in {0, 15000, 20000, 120000, 125000}, g \in {0, 8, 25},
        f \in 0 .. MaxFundraiseMonth, a \in {0, 250000}}

InitRunway ==
    /\ market = DEFAULTS.market
    /\ unit = DEFAULTS.unit
    /\ runway \in RunwayInputs
    /\ Pending

SpecRunway == InitRunway /\ [][Evaluate]_vars

\* The parameters the editing surface holds beside those of the engine's
\* formulas: horizon, target ARR and the split of the burn
UnreadMarkets ==
    {[DEFAULTS.market EXCEPT !.tam = t, !.horizon = h, !.targetARR = a] :
        t \in {5000, 10000}, h \in {1, 5, 10}, a \in {100000, 10000000, 1000000000}}

UnreadRunways ==
    {[DEFAULTS.runway EXCEPT !.startingCash = c, !.burnHeadcount = h,
                             !.burnInfra = i, !.burnOps = o] :
        c \in {100000, 1500000}, h \in {0, 60}, i \in {20, 100}, o \in {20, 100}}

InitUnread ==
    /\ market \in UnreadMarkets
    /\ unit = DEFAULTS.unit
    /\ runway \in UnreadRunways
    /\ Pending

SpecUnread == InitUnread /\ [][Evaluate]_vars

\* A caller that calls the engine again and again, on arguments it changes
\* between the calls
CallMarkets == {DEFAULTS.market, [DEFAULTS.market EXCEPT !.tam = 10000],
                [DEFAULTS.market EXCEPT !.somPct = 21]}

CallUnits == {DEFAULTS.unit, [DEFAULTS.unit EXCEPT !.cac = 50]}

CallRunways == {DEFAULTS.runway, [DEFAULTS.runway EXCEPT !.startingCash = 100000]}

InitCalls ==
    /\ market \in CallMarkets
    /\ unit \in CallUnits
    /\ runway \in CallRunways
    /\ Pending

\* A call whose flags array outlives the call: const flags = [] outside the function
CallKeepingFlags ==
    /\ result' = IF Evaluated
                 THEN [computeScore(market, unit, runway) EXCEPT
                           !.flags = result.flags \o @]
                 ELSE computeScore(market, unit, runway)
    /\ moduleCompletion' = Completion(result')
    /\ UNCHANGED <<market, unit, runway, coach, cell>>

\* One call: flags and score are local to it and the arguments are only read.
Call ==
    /\ result' = computeScore(market, unit, runway)
    /\ moduleCompletion' = Completion(result')
    /\ UNCHANGED <<market, unit, runway, coach, cell>>

\* The caller changes its arguments; the last return value stays as it is.
Rebind ==
    /\ market' \in CallMarkets
    /\ unit' \in CallUnits
    /\ runway' \in CallRunways
    /\ UNCHANGED <<result, moduleCompletion, coach, cell>>

NextCalls == Call \/ Rebind

SpecCalls == InitCalls /\ [][NextCalls]_vars

-----------------------------------------------------------------------------
(* Properties of the scoring engine *)

\* The checks as computeScore ran them on the current parameters; they read
\* runwayMonths and breakevenMonth, which the result carries in derived.
RanChecks == Checks(market, unit, runway, result.derived)

\* The score before the clamp
RawScore == SumPoints(RanChecks)

\* C1: for every input of the documented domains the returned score is an
\* integer with 0 <= score <= 100.
C1_ScoreRange == Evaluated => result.score \in 0 .. 100

\* The upper end is attained, and by a sum that the clamp had to cut.
C1_Witness == Evaluated /\ result.score = 100 /\ RawScore > 100

\* Every check in its best tier
AllBest ==
    /\ market.tam >= 10000 /\ market.somPct <= 10
    /\ QGe(result.derived.som, QInt(100))
    /\ QGe(result.derived.ltvCac, QInt(5)) /\ QLe(result.derived.payback, QInt(6))
    /\ unit.grossMargin >= 70
    /\ result.derived.runwayMonths >= 18 /\ result.derived.breakevenMonth # null
    /\ result.derived.totalDilution <= 25

\* C2 as stated: the sum of the points before clamping never exceeds 100, it
\* is exactly 100 with every check in its best tier, and the clamp never
\* changes the value.
C2_SumAtMost100 ==
    Evaluated => /\ RawScore <= 100
                 /\ result.score = RawScore
                 /\ (AllBest => RawScore = 100)

SumAtMost125(cs, raw) ==
    /\ \A i \in 1 .. Len(cs) : cs[i].points >= 0
    /\ raw \in 0 .. 125
    /\ result.score = IF raw > 100 THEN 100 ELSE raw
    /\ (AllBest => raw = 125)

\* C2, as the code has it: no check subtracts points and the sum of the points
\* before clamping lies in 0..125; with every check in its best tier it is
\* 20+15+10 + 20+15+10 + 20+10+5 = 125; the returned score is min(100, sum),
\* so the clamp changes the value exactly when the sum exceeds 100.
C2_SumAtMost125 == Evaluated => SumAtMost125(RanChecks, RawScore)

\* Every check in its best tier: the sum is 125 and the score 100.
C2_Witness == Evaluated /\ AllBest /\ RawScore = 125 /\ result.score = 100

-----------------------------------------------------------------------------
(* Properties of the cash-flow simulation *)

\* rev(0), ..., rev(23): the revenue at the start of each step, from
\* rev(0) = monthlyRevenue and rev(m) = rev(m-1) * (1 + revenueGrowthMoM/100)
RECURSIVE RevPath(_, _)
RevPath(revs, r) ==
    IF Len(revs) = SimMonths THEN revs
    ELSE RevPath(Append(revs, DecScale(revs[Len(revs)], 100 + r.revenueGrowthMoM)), r)

Revs == RevPath(<<DecInt(runway.monthlyRevenue)>>, runway)

\* totalMonthlyBurn - rev(m-1)
NetBurnOf(revs, m) == DecSub(DecInt(runway.totalMonthlyBurn), revs[m])

\* F(m)
F(m) == IF m = runway.fundraiseMonth /\ runway.fundraiseAmount > 0
        THEN runway.fundraiseAmount ELSE 0

\* cashData[m], the array counted from 0 as the program counts it
CashAt(cashData, m) == cashData[m + 1]

CashRecurrence(cashData, revs) ==
    /\ Len(cashData) = SimMonths + 1
    /\ CashAt(cashData, 0) = DecInt(runway.startingCash)
    /\ \A m \in 1 .. SimMonths :
          CashAt(cashData, m) =
              DecAdd(DecSub(CashAt(cashData, m - 1), NetBurnOf(revs, m)), DecInt(F(m)))

\* C3: cashData has exactly 25 entries, cashData[0] = startingCash and
\* cashData[m] = cashData[m-1] - (totalMonthlyBurn - rev(m-1)) + F(m) for every
\* m in 1..24: all 24 steps are recorded, also after depletion or breakeven,
\* and month 1 uses the ungrown monthlyRevenue.
C3_CashData == Evaluated => CashRecurrence(result.derived.cashData, Revs)

\* A run with growth and a raise in which the cash is gone before month 24
\* and breakeven comes later, and all 25 entries are there.
C3_Witness ==
    /\ Evaluated
    /\ runway.revenueGrowthMoM > 0 /\ F(runway.fundraiseMonth) > 0
    /\ result.derived.runwayMonths < 12
    /\ result.derived.breakevenMonth \in 2 .. 23
    /\ Len(result.derived.cashData) = 25
    /\ ~DecLeZero(CashAt(result.derived.cashData, 24))

\* The months m in 1..24 with cashData[m] <= 0
Crossings(cashData) == {m \in 1 .. SimMonths : DecLeZero(CashAt(cashData, m))}

\* The smallest month of a non-empty set of months
FirstOf(months) == CHOOSE m \in months : \A n \in months : m <= n

\* Month m ends above zero only through the raise of that month.
Bridged(cashData, revs, m) ==
    /\ F(m) > 0
    /\ DecLeZero(DecSub(CashAt(cashData, m - 1), NetBurnOf(revs, m)))
    /\ ~DecLeZero(CashAt(cashData, m))

FirstCrossing(cashData, revs, runwayMonths) ==
    /\ runwayMonths = IF Crossings(cashData) = {} THEN 24
                      ELSE FirstOf(Crossings(cashData)) - 1
    /\ \A m \in 1 .. SimMonths :
          Bridged(cashData, revs, m) => runwayMonths # m - 1

\* C4: runwayMonths = (the smallest m in 1..24 with cashData[m] <= 0) - 1, and
\* 24 if there is none; it stays at the first crossing when cash recovers
\* later, and a month whose post-burn cash is <= 0 but whose post-fundraise
\* cash is > 0 is not a crossing.
C4_RunwayMonths ==
    Evaluated => FirstCrossing(result.derived.cashData, Revs, result.derived.runwayMonths)

\* Month 1 is bridged by its raise, the first crossing comes later, and the
\* cash is above zero again at the end.
C4_Witness ==
    /\ Evaluated
    /\ Bridged(result.derived.cashData, Revs, 1)
    /\ result.derived.runwayMonths \in 1 .. 22
    /\ ~DecLeZero(CashAt(result.derived.cashData, 24))

\* C5 as stated: runwayMonths is an integer in 1..24.
C5_RunwayFrom1 == result.derived.runwayMonths \in 1 .. 24

\* C5, as the code has it: runwayMonths is an integer in 0..24, and it is 0
\* exactly when the cash is at or below zero at the end of month 1, which
\* values of the editing cells reach (startingCash 100000 with the default
\* burn and revenue).
C5_RunwayFrom0 ==
    /\ result.derived.runwayMonths \in 0 .. 24
    /\ result.derived.runwayMonths = 0 <=> DecLeZero(CashAt(result.derived.cashData, 1))

\* The cells' smallest starting cash with the default burn and revenue
C5_Witness ==
    /\ runway.startingCash = 100000
    /\ runway.totalMonthlyBurn \in 5000 .. 5000000 /\ runway.monthlyRevenue >= 0
    /\ result.derived.runwayMonths = 0

FirstBreakeven(revs, breakevenMonth) ==
    LET months == {m \in 1 .. SimMonths : DecLeZero(NetBurnOf(revs, m))}
    IN  /\ breakevenMonth = IF months = {} THEN null ELSE FirstOf(months)
        /\ breakevenMonth = 1 <=> runway.monthlyRevenue >= runway.totalMonthlyBurn

\* The same parameters without the raise
Unfunded(r) == [r EXCEPT !.fundraiseAmount = 0]

\* C6: breakevenMonth = the smallest m in 1..24 with
\* totalMonthlyBurn - rev(m-1) <= 0, and null if there is none; it is 1 iff
\* monthlyRevenue >= totalMonthlyBurn, and a fundraise never affects it.
C6_BreakevenMonth ==
    Evaluated => /\ FirstBreakeven(Revs, result.derived.breakevenMonth)
                 /\ result.derived.breakevenMonth = Simulate(Unfunded(runway)).breakevenMonth

\* Revenue that grows past the burn in a later month, with a raise on the way
C6_Witness ==
    /\ Evaluated
    /\ F(runway.fundraiseMonth) > 0
    /\ runway.monthlyRevenue < runway.totalMonthlyBurn
    /\ result.derived.breakevenMonth \in 2 .. 24

-----------------------------------------------------------------------------
(* Properties of the module completion and of the rule catalog *)

\* The flags of one module among the returned flags
FlagsOf(k) == SelectSeq(result.flags, LAMBDA f : f.module = k)

CriticalIn(k) ==
    \E i \in 1 .. Len(result.flags) :
        result.flags[i].module = k /\ result.flags[i].severity = "critical"

CatalogRows(cs) ==
    << cs[1], cs[2], cs[3], cs[4], cs[5], cs[6], cs[7],
       Outcome(cs[8].points + cs[9].points, cs[8].flags \o cs[9].flags),
       cs[10], cs[11] >>

\* The rows with a shape of their own
RowIndex == [churn |-> 7, runwayMonths |-> 8, dilution |-> 10]

\* The module of each row
RowModule == <<1, 1, 1, 2, 2, 2, 2, 3, 3, 3>>

Rows == CatalogRows(RanChecks)

\* Points and no flag, or no points and exactly one flag
PointsXorFlag(row) ==
    \/ row.points > 0 /\ row.flags = <<>>
    \/ row.points = 0 /\ Len(row.flags) = 1

EveryRowOneOfTwo(rows) ==
    /\ \A i \in (1 .. 10) \ {RowIndex.churn} : PointsXorFlag(rows[i])
    /\ rows[RowIndex.churn].points = 0

\* C8 as stated: every row other than churn either adds points or appends
\* exactly one flag, never both; churn never changes the score.
C8_EveryRowOneOfTwo == Evaluated => EveryRowOneOfTwo(Rows)

RunwayRowAsCoded(row, runwayMonths) ==
    IF runwayMonths >= 18 THEN row.points = 20 /\ row.flags = <<>>
    ELSE IF runwayMonths >= 6
         THEN /\ row.points \in {3, 10}
              /\ row.flags = <<Flag("runway_short", 3, "warning")>>
         ELSE /\ row.points = 0
              /\ row.flags = << Flag("runway_critical", 3, "critical"),
                                Flag("runway_short", 3, "warning") >>

DilutionRowAsCoded(row, totalDilution) ==
    IF totalDilution <= 25 THEN row.points = 5 /\ row.flags = <<>>
    ELSE IF totalDilution <= 35 THEN row.points = 0 /\ row.flags = <<>>
    ELSE row.points = 0 /\ Len(row.flags) = 1

RowsAsCoded(rows) ==
    /\ \A i \in (1 .. 10) \ {RowIndex.churn, RowIndex.runwayMonths, RowIndex.dilution} :
          PointsXorFlag(rows[i])
    /\ RunwayRowAsCoded(rows[RowIndex.runwayMonths], result.derived.runwayMonths)
    /\ DilutionRowAsCoded(rows[RowIndex.dilution], result.derived.totalDilution)
    /\ rows[RowIndex.churn].points = 0 /\ Len(rows[RowIndex.churn].flags) <= 1

\* C8, as the code has it: every row other than churn, runway months and
\* dilution either adds points or appends exactly one flag, never both.  The
\* runway months row adds points and appends runway_short when
\* 6 <= runwayMonths < 18, and appends two flags and adds nothing below 6.
\* The dilution row adds nothing and appends nothing when total dilution is
\* above 25 and at most 35.  Churn adds no points and appends at most one flag.
C8_RowsAsCoded == Evaluated => RowsAsCoded(Rows)

\* The runway months row with points and a flag, the dilution row with neither
C8_Witness ==
    /\ Evaluated
    /\ result.derived.runwayMonths \in 6 .. 17
    /\ Rows[RowIndex.runwayMonths].points > 0 /\ Len(Rows[RowIndex.runwayMonths].flags) = 1
    /\ result.derived.totalDilution \in 26 .. 35
    /\ Rows[RowIndex.dilution] = Outcome(0, <<>>)

RowsOf(k) == {i \in 1 .. 10 : RowModule[i] = k}

EmptyIffPointsAwarded(rows) ==
    \A k \in 1 .. 3 :
        FlagsOf(k) = <<>> <=>
            \A i \in RowsOf(k) : /\ rows[i].flags = <<>>
                                  /\ (i # RowIndex.churn => rows[i].points > 0)

\* C9 as stated, churn let off the points: the flags of module k are empty
\* iff every check of module k is in a branch that awards points and appends
\* no flag.
C9_EmptyIffPointsAwarded == Evaluated => EmptyIffPointsAwarded(Rows)

\* A branch without a flag awards points, but for churn below 5% and total
\* dilution above 25 and at most 35.
NoFlagBranch(rows, i) ==
    rows[i].flags = <<>> =>
        \/ rows[i].points > 0
        \/ i = RowIndex.churn
        \/ i = RowIndex.dilution /\ result.derived.totalDilution \in 26 .. 35

EmptyIffNoFlagBranch(rows) ==
    /\ \A k \in 1 .. 3 :
          FlagsOf(k) = <<>> <=> \A i \in RowsOf(k) : rows[i].flags = <<>>
    /\ \A i \in 1 .. 10 : NoFlagBranch(rows, i)

\* C9, as the code has it: the flags of module k are empty iff every check of
\* module k is in a branch that appends no flag; such a branch awards points,
\* except that churn below 5% and total dilution above 25 and at most 35
\* award none.
C9_EmptyIffNoFlagBranch == Evaluated => EmptyIffNoFlagBranch(Rows)

\* Module 3 without flags while its dilution check awards nothing
C9_Witness ==
    /\ Evaluated
    /\ FlagsOf(3) = <<>>
    /\ Rows[RowIndex.dilution].points = 0
    /\ FlagsOf(1) # <<>>

\* market.tam * (samPct / 100) * (somPct / 100) >= bound, all in millions of
\* dollars and somPct in half percents, without division
SomAtLeast(millions) ==
    market.tam * market.samPct * market.somPct >= millions * 100 * 200

TamRow ==
    IF market.tam >= 10000 THEN Outcome(20, <<>>)
    ELSE IF market.tam >= 1000 THEN Outcome(13, <<>>)
    ELSE Outcome(0, <<Flag("tam_small", 1, "critical")>>)

SomPctRow ==
    IF market.somPct <= 2 * 5 THEN Outcome(15, <<>>)
    ELSE IF market.somPct <= 2 * 10 THEN Outcome(8, <<>>)
    ELSE Outcome(0, <<Flag("som_high", 1, "warning")>>)

SomRow ==
    IF SomAtLeast(100) THEN Outcome(10, <<>>)
    ELSE IF SomAtLeast(30) THEN Outcome(5, <<>>)
    ELSE Outcome(0, <<Flag("som_abs", 1, "warning")>>)

-----------------------------------------------------------------------------
(* Properties of the unit economics, runway, breakeven and dilution checks *)

\* The months one price pays for
PriceMonths == IF unit.billing = "monthly" THEN 1 ELSE 12

\* ltvCac >= bound on the integer inputs, without division: ltv is
\* price * grossMargin * 10 / (PriceMonths * churnMonthly) in tenths of a
\* percent of churn, and 999999 without churn; ltvCac is 0 without a cac.
LtvCacAtLeast(bound) ==
    /\ unit.cac > 0
    /\ IF unit.churnMonthly > 0 /\ unit.price * unit.grossMargin > 0
       THEN unit.price * unit.grossMargin * 10
                >= bound * unit.cac * unit.churnMonthly * PriceMonths
       ELSE IF unit.churnMonthly > 0 THEN FALSE
       ELSE 999999 >= bound * unit.cac

\* payback <= bound on the integer inputs; payback is 999 without gross revenue
PaybackAtMost(bound) ==
    /\ unit.price * unit.grossMargin > 0
    /\ unit.cac * 100 * PriceMonths <= bound * unit.price * unit.grossMargin

LtvCacRow ==
    IF LtvCacAtLeast(5) THEN Outcome(20, <<>>)
    ELSE IF LtvCacAtLeast(3) THEN Outcome(12, <<>>)
    ELSE IF LtvCacAtLeast(2) THEN Outcome(5, <<>>)
    ELSE Outcome(0, <<Flag("ltvcac_low", 2, "critical")>>)

PaybackRow ==
    IF PaybackAtMost(6) THEN Outcome(15, <<>>)
    ELSE IF PaybackAtMost(12) THEN Outcome(8, <<>>)
    ELSE Outcome(0, <<Flag("payback_long", 2, "warning")>>)

MarginRow ==
    IF unit.grossMargin >= 70 THEN Outcome(10, <<>>)
    ELSE IF unit.grossMargin >= 60 THEN Outcome(5, <<>>)
    ELSE Outcome(0, <<Flag("margin_low", 2, "warning")>>)

\* The identity of a flag, its detail left aside
Tag(f) == Flag(f.id, f.module, f.severity)

Tags(flags) == [i \in 1 .. Len(flags) |-> Tag(flags[i])]

ChurnRowTags ==
    IF unit.churnMonthly >= 10 * 5 THEN <<Flag("churn_high", 2, "warning")>> ELSE <<>>

Module2AsCatalog(flags) ==
    /\ Tags(flags) = LtvCacRow.flags \o PaybackRow.flags \o MarginRow.flags \o ChurnRowTags
    /\ result.score = LtvCacRow.points + PaybackRow.points + MarginRow.points
                        + SumPoints(SubSeq(RanChecks, 1, 3))
                        + SumPoints(SubSeq(RanChecks, 8, 11))
    /\ unit.churnMonthly = 10 * 5 => flags[Len(flags)].annualChurn = 46

\* C11: ltvCac >= 5 adds 20, >= 3 adds 12, >= 2 adds 5, else one critical flag
\* ltvcac_low; payback <= 6 adds 15, <= 12 adds 8, else one warning flag
\* payback_long; grossMargin >= 70 adds 10, >= 60 adds 5, else one warning
\* flag margin_low; churnMonthly >= 5, 5 included, appends one warning flag
\* churn_high and neither adds nor removes points; at churnMonthly = 5 the
\* detail of the flag states an annual churn of 46%.
C11_Module2Catalog == Evaluated => Module2AsCatalog(FlagsOf(2))

\* Churn of exactly 5% with LTV/CAC exactly 2 and a margin of exactly 60
C11_Witness ==
    /\ Evaluated
    /\ unit.churnMonthly = 50 /\ unit.grossMargin = 60
    /\ unit.price * unit.grossMargin * 10 = 2 * unit.cac * unit.churnMonthly * PriceMonths
    /\ Tags(FlagsOf(2)) = <<Flag("churn_high", 2, "warning")>>
    /\ FlagsOf(2)[1].annualChurn = 46

\* The returned flags with one of the given ids, in their order
FlagsWithId(ids) == SelectSeq(result.flags, LAMBDA f : f.id \in ids)

HasFlag(id) == \E i \in 1 .. Len(result.flags) : result.flags[i].id = id

RunwayTier(runwayMonths) ==
    IF runwayMonths >= 18 THEN Outcome(20, <<>>)
    ELSE IF runwayMonths >= 12 THEN Outcome(10, <<Flag("runway_short", 3, "warning")>>)
    ELSE IF runwayMonths >= 6 THEN Outcome(3, <<Flag("runway_short", 3, "warning")>>)
    ELSE Outcome(0, << Flag("runway_critical", 3, "critical"),
                       Flag("runway_short", 3, "warning") >>)

RunwayAsCatalog(tier, runwayMonths) ==
    /\ FlagsWithId({"runway_critical", "runway_short"}) = tier.flags
    /\ result.score = tier.points + SumPoints(SubSeq(RanChecks, 1, 7))
                                   + SumPoints(SubSeq(RanChecks, 10, 11))
    /\ HasFlag("runway_critical") => HasFlag("runway_short")
    /\ HasFlag("runway_short") <=> runwayMonths < 18

\* C12: runwayMonths >= 18 adds 20 and emits no runway flag; 12..17 adds 10
\* and emits only the warning runway_short; 6..11 adds 3 and emits only
\* runway_short; below 6 adds 0 and emits the critical runway_critical and
\* then runway_short.  So runway_critical implies runway_short, and
\* runway_short is present iff runwayMonths < 18.
C12_RunwayCheck ==
    Evaluated => RunwayAsCatalog(RunwayTier(result.derived.runwayMonths),
                                 result.derived.runwayMonths)

\* Five months of runway: both flags, the critical one first
C12_Witness ==
    /\ Evaluated
    /\ result.derived.runwayMonths = 5
    /\ FlagsWithId({"runway_critical", "runway_short"})
           = <<Flag("runway_critical", 3, "critical"), Flag("runway_short", 3, "warning")>>

BreakevenRow ==
    IF result.derived.breakevenMonth # null THEN Outcome(10, <<>>)
    ELSE Outcome(0, <<Flag("no_breakeven", 3, "warning")>>)

DilutionTier(totalDilution) ==
    IF totalDilution <= 25 THEN Outcome(5, <<>>)
    ELSE IF totalDilution <= 35 THEN Outcome(0, <<>>)
    ELSE Outcome(0, <<Flag("dilution_heavy", 3, "warning")>>)

BreakevenDilutionAsCatalog(breakeven, dilution) ==
    /\ result.derived.totalDilution = runway.safeCapPercent + runway.optionPool
    /\ result.derived.founderOwnership
          = IF result.derived.totalDilution >= 100 THEN 0
            ELSE 100 - result.derived.totalDilution
    /\ FlagsWithId({"no_breakeven", "dilution_heavy"}) = breakeven.flags \o dilution.flags
    /\ result.score = breakeven.points + dilution.points
                        + SumPoints(SubSeq(RanChecks, 1, 9))

\* C13: 10 points are added iff breakevenMonth is not null, otherwise exactly
\* one warning flag no_breakeven is appended; totalDilution = safeCapPercent +
\* optionPool and founderOwnership = max(0, 100 - totalDilution);
\* totalDilution <= 25 adds 5 with no flag, 25 < totalDilution <= 35 adds 0
\* with no flag, totalDilution > 35 adds 0 and appends one warning flag
\* dilution_heavy.
C13_BreakevenDilution ==
    Evaluated => BreakevenDilutionAsCatalog(BreakevenRow,
                                            DilutionTier(runway.safeCapPercent + runway.optionPool))

\* Breakeven in a later month and a dilution above 100%: 10 points, the flag
\* dilution_heavy alone and no ownership left
C13_Witness ==
    /\ Evaluated
    /\ result.derived.breakevenMonth \in 2 .. 24
    /\ runway.safeCapPercent + runway.optionPool > 100
    /\ result.derived.founderOwnership = 0
    /\ FlagsWithId({"no_breakeven", "dilution_heavy"}) = <<Flag("dilution_heavy", 3, "warning")>>

-----------------------------------------------------------------------------
(* Properties of the returned flags and of the derived metrics *)

\* The fixed order of the catalog, each id with its module and severity
CatalogOrder ==
    << Flag("tam_small", 1, "critical"), Flag("som_high", 1, "warning"),
       Flag("som_abs", 1, "warning"), Flag("ltvcac_low", 2, "critical"),
       Flag("payback_long", 2, "warning"), Flag("margin_low", 2, "warning"),
       Flag("churn_high", 2, "warning"), Flag("runway_critical", 3, "critical"),
       Flag("runway_short", 3, "warning"), Flag("no_breakeven", 3, "warning"),
       Flag("dilution_heavy", 3, "warning") >>

\* The place of a flag id in the catalog, 0 for an id the catalog has not
CatalogPlace(id) ==
    IF \E k \in 1 .. Len(CatalogOrder) : CatalogOrder[k].id = id
    THEN CHOOSE k \in 1 .. Len(CatalogOrder) : CatalogOrder[k].id = id
    ELSE 0

InCatalogOrder(tags) ==
    /\ \A i \in 1 .. Len(tags) :
          /\ CatalogPlace(tags[i].id) > 0
          /\ tags[i] = CatalogOrder[CatalogPlace(tags[i].id)]
          /\ tags[i].severity = "critical"
                <=> tags[i].id \in {"tam_small", "ltvcac_low", "runway_critical"}
    /\ \A i, j \in 1 .. Len(tags) :
          i < j => /\ CatalogPlace(tags[i].id) < CatalogPlace(tags[j].id)
                   /\ tags[i].id # tags[j].id
                   /\ tags[i].module <= tags[j].module

\* C14: the returned flags are a subsequence of the fixed catalog order: every
\* id occurs at most once, the module numbers never decrease along the
\* sequence, each id always carries the same module and severity, and the
\* only critical ids are tam_small, ltvcac_low and runway_critical.
C14_FlagOrder == Evaluated => InCatalogOrder(Tags(result.flags))

\* Every check in its flagging branch: the whole catalog, in order
C14_Witness == Evaluated /\ Tags(result.flags) = CatalogOrder /\ result.score = 0

\* The reference formulas on the integer inputs, as fractions in lowest
\* terms: grossRevPerMonth = price * grossMargin / (100 * PriceMonths) and
\* churnRate = churnMonthly / 1000 with churnMonthly in tenths of a percent
RefLtv ==
    IF unit.churnMonthly > 0
    THEN Q(unit.price * unit.grossMargin * 10, PriceMonths * unit.churnMonthly)
    ELSE QInt(999999)

RefAvgLifespanMonths ==
    IF unit.churnMonthly > 0 THEN Q(1000, unit.churnMonthly) ELSE QInt(999)

RefPayback ==
    IF unit.price * unit.grossMargin > 0
    THEN Q(unit.cac * 100 * PriceMonths, unit.price * unit.grossMargin)
    ELSE QInt(999)

RefLtvCac(ltv) == IF unit.cac > 0 THEN Q(ltv.n, ltv.d * unit.cac) ELSE QInt(0)

\* A finite number: a fraction with a denominator
Finite(q) == q.d > 0

UnitMetricsAsReference(d) ==
    /\ d.ltv = RefLtv
    /\ d.avgLifespanMonths = RefAvgLifespanMonths
    /\ d.payback = RefPayback
    /\ d.ltvCac = RefLtvCac(RefLtv)
    /\ Finite(d.ltv) /\ Finite(d.avgLifespanMonths) /\ Finite(d.payback) /\ Finite(d.ltvCac)

\* C15: monthlyPrice = price/12 if annual else price; grossRevPerMonth =
\* monthlyPrice*grossMargin/100; ltv = grossRevPerMonth/churnRate if
\* churnMonthly > 0 else exactly 999999; avgLifespanMonths = 1/churnRate if
\* churnMonthly > 0 else exactly 999; payback = cac/grossRevPerMonth if
\* grossRevPerMonth > 0 else exactly 999; ltvCac = ltv/cac if cac > 0 else 0.
\* No division by zero is performed: every metric is a finite number.
C15_UnitMetrics == Evaluated => UnitMetricsAsReference(result.derived)

\* Annual billing with every sentinel at once: no churn, no cac, no margin
C15_Witness ==
    /\ Evaluated
    /\ unit.billing = "annual"
    /\ unit.churnMonthly = 0 /\ unit.cac = 0 /\ unit.grossMargin = 0
    /\ result.derived.ltv = QInt(999999)
    /\ result.derived.avgLifespanMonths = QInt(999)
    /\ result.derived.payback = QInt(999)
    /\ result.derived.ltvCac = QInt(0)

Nested(d) ==
    /\ d.sam = Q(market.tam * market.samPct, 100)
    /\ d.som = Q(market.tam * market.samPct * market.somPct, 100 * 200)
    /\ QLe(d.som, d.sam)
    /\ QLe(d.sam, QInt(market.tam))

\* C16: for tam >= 0 and samPct, somPct in [0,100] the derived metrics satisfy
\* som <= sam <= tam, where sam = tam*samPct/100 and som = sam*somPct/100.
C16_SomSamTam == Evaluated => Nested(result.derived)

\* Strict on both sides, with somPct above samPct
C16_Witness ==
    /\ Evaluated
    /\ market.tam > 0 /\ market.samPct \in 1 .. 99
    /\ market.somPct > 2 * market.samPct
    /\ QLt(result.derived.som, result.derived.sam)
    /\ QLt(result.derived.sam, QInt(market.tam))

-----------------------------------------------------------------------------
(* Relations between calls of the engine *)

\* The points of module 1 in a call of computeScore on market m
Module1Points(m) == SumPoints(SubSeq(Checks(m, unit, runway, result.derived), 1, 3))

\* The same market with another TAM
WithTam(t) == [market EXCEPT !.tam = t]

TamValues == {m.tam : m \in MarketInputs}

MonotoneInTam(points) ==
    /\ result.score = points + SumPoints(SubSeq(RanChecks, 4, 11))
    /\ \A t \in TamValues :
          /\ t >= market.tam => points <= Module1Points(WithTam(t))
          /\ t <= market.tam => Module1Points(WithTam(t)) <= points

\* C17: with samPct, somPct and all other inputs fixed, increasing tam never
\* decreases the points of module 1 (TAM size + SOM % of SAM + SOM
\* absolute): tam1 <= tam2 implies module1Points(tam1) <= module1Points(tam2).
C17_MonotoneInTam == Evaluated => MonotoneInTam(Module1Points(market))

\* Just below $1B, where the next TAM earns strictly more, in both tiers
C17_Witness ==
    /\ Evaluated
    /\ market.tam = 999 /\ market.samPct = 100 /\ market.somPct = 20
    /\ Module1Points(market) = 8 + 5
    /\ Module1Points(WithTam(1000)) = 13 + 8 + 10

MarketRead(m) ==
    [m EXCEPT !.horizon = DEFAULTS.market.horizon, !.targetARR = DEFAULTS.market.targetARR]

RunwayRead(r) ==
    [r EXCEPT !.burnHeadcount = DEFAULTS.runway.burnHeadcount,
              !.burnInfra = DEFAULTS.runway.burnInfra,
              !.burnOps = DEFAULTS.runway.burnOps]

\* C19: score, flags and every derived metric are independent of
\* market.horizon, market.targetARR and runway.burnHeadcount / burnInfra /
\* burnOps: inputs that differ only in these fields give identical results.
C19_Independent ==
    Evaluated => result = computeScore(MarketRead(market), unit, RunwayRead(runway))

\* Another horizon, another target and a burn split that is not even 100%
C19_Witness ==
    /\ Evaluated
    /\ market.horizon = 10 /\ market.targetARR = 1000000000
    /\ runway.burnHeadcount + runway.burnInfra + runway.burnOps = 200
    /\ result.score = computeScore(DEFAULTS.market, DEFAULTS.unit, DEFAULTS.runway).score

-----------------------------------------------------------------------------
(* Scenarios *)

\* tam = 5e9, samPct = 15, somPct = 8
ScenarioA == market.tam = 5000 /\ market.samPct = 15 /\ market.somPct = 2 * 8

\* Scenario A up to the flag of the SOM absolute check
ScenarioAPoints(cs) ==
    /\ result.derived.sam = QInt(750)
    /\ result.derived.som = QInt(60)
    /\ cs[2].points = 8 /\ ~HasFlag("som_high")
    /\ cs[3].points = 5
    /\ result.score = 13 + 8 + 5 + SumPoints(SubSeq(cs, 4, 11))

ScenarioC ==
    /\ unit.cac = 800 /\ unit.price = 99 /\ unit.billing = "monthly"
    /\ unit.grossMargin = 55 /\ unit.churnMonthly = 10 * 5

ScenarioCMetrics(cs) ==
    /\ GrossRevPerMonth(unit) = Q(5445, 100)
    /\ result.derived.ltv = QInt(1089)
    /\ result.derived.ltvCac = Q(1089, 800)
    /\ QLt(result.derived.ltvCac, QInt(2))
    /\ FlagsWithId({"ltvcac_low"}) = <<Flag("ltvcac_low", 2, "critical")>>
    /\ cs[4].points = 0
    /\ result.score = SumPoints(SubSeq(cs, 1, 3)) + SumPoints(SubSeq(cs, 5, 11))

\* C21: in scenario C grossRevPerMonth = 54.45, ltv = 1089 and ltvCac =
\* 1089/800, below 2; the critical flag ltvcac_low is present and the LTV/CAC
\* check contributes 0 points.
C21_ScenarioC == ScenarioC => ScenarioCMetrics(RanChecks)

\* Scenario C after the market and the runway have been edited
C21_Witness ==
    /\ ScenarioC
    /\ market # DEFAULTS.market /\ runway # DEFAULTS.runway
    /\ result.derived.ltvCac = Q(1089, 800)
    /\ HasFlag("ltvcac_low")

\* startingCash = 1,500,000, totalMonthlyBurn = 120,000, monthlyRevenue =
\* 15,000, revenueGrowthMoM = 8, fundraiseMonth = 0
ScenarioD ==
    /\ runway.startingCash = 1500000 /\ runway.totalMonthlyBurn = 120000
    /\ runway.monthlyRevenue = 15000 /\ runway.revenueGrowthMoM = 8
    /\ runway.fundraiseMonth = 0

ScenarioDFold(d, revs) ==
    /\ CashRecurrence(d.cashData, revs)
    /\ FirstCrossing(d.cashData, revs, d.runwayMonths)
    /\ FirstBreakeven(revs, d.breakevenMonth)
    /\ ~DecLeZero(CashAt(d.cashData, 16)) /\ DecLeZero(CashAt(d.cashData, 17))
    /\ d.runwayMonths = 16
    /\ \A m \in 1 .. SimMonths : ~DecLeZero(NetBurnOf(revs, m))
    /\ d.breakevenMonth = null

\* C22: in scenario D runwayMonths and breakevenMonth equal those of the
\* reference fold over 24 months: cash first drops to <= 0 in month 17, so
\* runwayMonths = 16; revenue never reaches the burn, so breakevenMonth =
\* null.
C22_ScenarioD == ScenarioD => ScenarioDFold(result.derived, Revs)

\* Scenario D with the flags it leads to
C22_Witness ==
    /\ ScenarioD
    /\ result.derived.runwayMonths = 16
    /\ FlagsWithId({"runway_critical", "runway_short", "no_breakeven"})
          = <<Flag("runway_short", 3, "warning"), Flag("no_breakeven", 3, "warning")>>


-----------------------------------------------------------------------------
(* The coach request that fails *)

\* The message the deterministic path would give for the call that is waiting
AdviceAtClick == HeuristicAdvice(Head(coach.inFlight).score, Head(coach.inFlight).flags)

\* C23: when the request of provider anthropic or openai fails, the advice
\* becomes the local heuristic message computed from the flags and the score
\* (the message of the provider-none path), and the failure changes neither
\* the score, nor the flags, nor the parameters.
C23_FallsBackToHeuristic ==
    [][FetchFails => /\ coach'.advice = AdviceAtClick
                     /\ UNCHANGED <<market, unit, runway, result>>]_vars


-----------------------------------------------------------------------------
(* The values a cell hands to the dispatch *)

InBounds(group, bounds) ==
    \A field \in DOMAIN bounds :
        bounds[field][1] <= group[field] /\ group[field] <= bounds[field][2]

AllInBounds ==
    /\ InBounds(market, CellBounds.market)
    /\ InBounds(unit, CellBounds.unit)
    /\ InBounds(runway, CellBounds.runway)

\* An edit that ends with a text that is not a number changes no parameter.
UnparsedPassesNothing ==
    (cell.editing /\ ~cell'.editing /\ ParseEntry(cell.editStr) = NaN)
        => UNCHANGED <<market, unit, runway>>

\* C24: after any sequence of drag moves, arrow keys and typed commits, every
\* value a cell passes to onChange lies in the cell's [min, max] (snapped to
\* the step, then clamped), so every parameter edited through a cell stays
\* inside its bounds in every reachable state; a typed entry that does not
\* parse to a number passes nothing.
C24_CellBounds == []AllInBounds /\ [][UnparsedPassesNothing]_vars

\* The churn cell at its minimum of 0.1, which is off the grid of its step of
\* 0.5: the value the clamp returns for every entry below 0.25
C24_Witness ==
    /\ cell # NoResult /\ cell.field = "churnMonthly"
    /\ unit.churnMonthly = 1
    /\ ~cell.editing /\ ~cell.dragging


-----------------------------------------------------------------------------
(* The memoized values of the root component *)

\* What the presentation components are shown is the engine's answer for the
\* parameters of the same render.
NeverStale ==
    /\ result = computeScore(market, unit, runway)
    /\ \A k \in 1 .. 3 :
          moduleCompletion[k] = checkModuleComplete(k, result.flags, result.score)

FieldsChanged(old, new) == {field \in DOMAIN old : old[field] # new[field]}

\* One dispatch: one group, and one field of it
OneFieldOfOneGroup ==
    /\ DOMAIN market' = DOMAIN market /\ DOMAIN unit' = DOMAIN unit
    /\ DOMAIN runway' = DOMAIN runway
    /\ Cardinality(FieldsChanged(market, market') \cup FieldsChanged(unit, unit')
                   \cup FieldsChanged(runway, runway')) <= 1

\* C25: after any sequence of SET_MARKET, SET_UNIT and SET_RUNWAY dispatches
\* from the defaults, score, flags and derived equal computeScore of the
\* current parameters and moduleCompletion[k] equals checkModuleComplete(k,
\* flags, score) for k in 1..3; each dispatch changes only the named field of
\* its own group.
C25_NeverStale == []NeverStale /\ [][OneFieldOfOneGroup]_vars

\* All three groups edited, and a score that differs from the first one
C25_Witness ==
    /\ market.tam # DEFAULTS.market.tam
    /\ unit.cac # DEFAULTS.unit.cac
    /\ runway.startingCash # DEFAULTS.runway.startingCash
    /\ result.score # computeScore(DEFAULTS.market, DEFAULTS.unit, DEFAULTS.runway).score
    /\ NeverStale


-----------------------------------------------------------------------------
(* The score of the defaults *)

AtDefaults ==
    market = DEFAULTS.market /\ unit = DEFAULTS.unit /\ runway = DEFAULTS.runway

\* C26: computeScore applied to the defaults returns the score 42 that the
\* comment above DEFAULTS announces.
C26_DefaultsScore42 == AtDefaults => result.score = 42


-----------------------------------------------------------------------------
(* A customer acquisition cost of zero *)

CacZero(cs) ==
    /\ result.derived.ltvCac = QInt(0)
    /\ FlagsWithId({"ltvcac_low"}) = <<Flag("ltvcac_low", 2, "critical")>>
    /\ cs[4].points = 0
    /\ QGt(GrossRevPerMonth(unit), QInt(0)) =>
          result.derived.payback = QInt(0) /\ cs[5] = Outcome(15, <<>>)
    /\ ~checkModuleComplete(2, result.flags, result.score)
    /\ ~moduleCompletion[2]

\* C27: whenever cac = 0, ltvCac is 0 whatever ltv is, so the critical flag
\* ltvcac_low is present and the LTV/CAC check awards 0 points, while payback
\* is 0 (when grossRevPerMonth > 0) and awards the full 15 points; module 2
\* is then never complete.
C27_CacZero == (Evaluated /\ unit.cac = 0) => CacZero(RanChecks)

\* No acquisition cost, a positive revenue per customer and no churn: the
\* largest ltv and the full payback points next to the critical flag
C27_Witness ==
    /\ Evaluated /\ unit.cac = 0
    /\ QGt(GrossRevPerMonth(unit), QInt(0))
    /\ unit.churnMonthly = 0
    /\ result.derived.ltv = QInt(999999)
    /\ result.derived.payback = QInt(0)
    /\ HasFlag("ltvcac_low")


-----------------------------------------------------------------------------
(* The shape of the cash curve *)

DecLt(a, b) == ~DecLe(b, a)

\* Net burn never rises from one month to the next; from the breakeven month
\* on the cash never falls; before it (in every month when there is none) the
\* cash falls, the month of the raise apart.
CashShape(cashData, breakevenMonth, revs) ==
    /\ \A m \in 2 .. SimMonths : DecLe(NetBurnOf(revs, m), NetBurnOf(revs, m - 1))
    /\ \A m \in 1 .. SimMonths :
          IF breakevenMonth # null /\ breakevenMonth <= m
          THEN DecLe(CashAt(cashData, m - 1), CashAt(cashData, m))
          ELSE m # runway.fundraiseMonth =>
                   DecLt(CashAt(cashData, m), CashAt(cashData, m - 1))

\* C28: with monthlyRevenue >= 0 and revenueGrowthMoM >= 0 net burn is
\* non-increasing, so for every m with breakevenMonth <= m <= 24,
\* cashData[m] >= cashData[m-1], and for every m before breakevenMonth (every
\* m in 1..24 when it is null) other than the fundraise month,
\* cashData[m] < cashData[m-1].
C28_CashShape ==
    (Evaluated /\ runway.monthlyRevenue >= 0 /\ runway.revenueGrowthMoM >= 0)
        => CashShape(result.derived.cashData, result.derived.breakevenMonth, Revs)

\* A raise before a breakeven that comes later: the cash rises in the month of
\* the raise, falls in the months around it and rises from breakeven on
C28_Witness ==
    /\ Evaluated
    /\ runway.revenueGrowthMoM > 0
    /\ runway.fundraiseMonth \in 2 .. MaxFundraiseMonth /\ runway.fundraiseAmount > 0
    /\ result.derived.breakevenMonth \in (runway.fundraiseMonth + 2) .. 23
    /\ DecLt(CashAt(result.derived.cashData, runway.fundraiseMonth - 1),
             CashAt(result.derived.cashData, runway.fundraiseMonth))
    /\ DecLt(CashAt(result.derived.cashData, runway.fundraiseMonth + 1),
             CashAt(result.derived.cashData, runway.fundraiseMonth))
    /\ DecLt(CashAt(result.derived.cashData, result.derived.breakevenMonth),
             CashAt(result.derived.cashData, 24))


-----------------------------------------------------------------------------
(* The depletion marker of the chart against the engine *)

MarkerAgrees(cashData, runwayMonths, marker) ==
    /\ (\E m \in 1 .. SimMonths : DecLeZero(CashAt(cashData, m)))
          => marker = runwayMonths + 1
    /\ marker = -1 <=> runwayMonths = SimMonths

\* C29: for every cashData the engine produces, the chart's deathMonth (the
\* first index i > 0 with cashData[i] <= 0, or -1) is runwayMonths + 1 when
\* some month in 1..24 has cash <= 0, and is -1 exactly when runwayMonths = 24.
C29_DeathMonth ==
    Evaluated => MarkerAgrees(result.derived.cashData, result.derived.runwayMonths,
                              deathMonth(result.derived.cashData))

\* Cash of exactly zero after the first month and a raise that lifts it again:
\* the marker stands at month 1 and the engine counts no month of runway
C29_Witness ==
    /\ Evaluated
    /\ CashAt(result.derived.cashData, 1) = DecInt(0)
    /\ ~DecLeZero(CashAt(result.derived.cashData, 2))
    /\ deathMonth(result.derived.cashData) = 1
    /\ result.derived.runwayMonths = 0


-----------------------------------------------------------------------------
(* The coach request from the click to its end *)

\* loading is true exactly while one call of getAdvice has not returned.
OneInFlight ==
    /\ Len(coach.inFlight) <= 1
    /\ coach.loading <=> coach.inFlight # <<>>

\* The deterministic path shows the message of the render that was clicked.
AdviceFromClick ==
    (coach.provider = "none" /\ coach.loading /\ ~coach'.loading)
        => coach'.advice = AdviceAtClick

\* C30: at most one coach request is in flight at any time (the button is
\* disabled while loading); every started getAdvice sets loading back to
\* false, on every path, provided its timer or its fetch settles; and the
\* advice of the provider-none path is computed from the score and flags
\* captured at the click, even if parameters change while it is pending.
C30_CoachRequest ==
    /\ []OneInFlight
    /\ [][AdviceFromClick]_vars
    /\ (coach.loading ~> ~coach.loading)

\* The deterministic path has answered with the score of the click, below 80
\* and without a flag, while the score on screen has reached 80.
C30_Witness ==
    /\ coach.provider = "none" /\ coach.asked /\ ~coach.loading
    /\ coach.advice.kind = "foundation"
    /\ coach.advice.score < result.score
    /\ result.score >= 80

=============================================================================
